---- MODULE Spec2Model ----
(***************************************************************************)
(* URL shortener worker (ha0min/shortener): the handlers of the Hono app   *)
(* over the URL_SHORTENER key-value namespace and the URL_CLICK_TRACKING   *)
(* analytics dataset.                                                      *)
(*                                                                         *)
(* Every handler is cut at its awaits on the key-value store: one action   *)
(* per store operation, together with the local code that runs up to the   *)
(* next await.  Requests run concurrently and share nothing but the store. *)
(*                                                                         *)
(* Store assumption: the namespace is modelled as a map whose reads see    *)
(* the latest write; an operation either takes effect or throws; a key put *)
(* with expirationTtl disappears once its time to live has elapsed.        *)
(***************************************************************************)
EXTENDS Integers, Sequences, FiniteSets, Bags, TLC

\* ------------------------------------------------------------- bounds
MaxInFlight == 2   \* requests in flight at a time (concurrent clients)
NumConcurrent == 2 \* requests sent in all by the concurrent clients
NumSequential == 2 \* requests sent in all by a sequential client
NumReturning == 4  \* requests sent in all by a returning client
NumReporting == 2  \* requests sent in all by a reporting client
NumSurveying == 3  \* requests sent in all by a client that asks for the overview
CodeLength == 1    \* characters of a generated short code
MaxRows == 3       \* rows in an answer of the analytics engine
NumVisiting == 2   \* requests sent in all by a client that logs in and out
MaxDays == 1       \* session lifetimes that pass
MaxFaults == 1     \* store operations that throw
MaxTime == 60
TickLen == 60

\* ------------------------------------------------- program constants
LockTtl == 60
SessionTtl == 86400
NoExpiration == -1
ByteValues == 256

\* ------------------------------------------------------------- inputs
UrlSeq == <<"https://a.test", "https://b.test">>
Urls == {UrlSeq[i] : i \in 1..Len(UrlSeq)}
CodeSeq == <<"abcd", "wxyz">>
Codes == {CodeSeq[i] : i \in 1..Len(CodeSeq)}
Expirations == {NoExpiration, 0, 45000}
Descriptions == {"", "promo"}
\* the (expiration, description) pairs of the request bodies explored
Extras == {<<NoExpiration, "">>, <<0, "promo">>, <<45000, "">>}
ConcurrentExtras == {<<45000, "promo">>}

\* a client: how many requests it sends, how many of them may be in flight
\* at a time, and the (expiration, description) pairs of its bodies
Sequential == [total |-> NumSequential, limit |-> 1, extras |-> Extras,
               faults |-> MaxFaults]
Concurrent == [total |-> NumConcurrent, limit |-> MaxInFlight,
               extras |-> ConcurrentExtras, faults |-> 0]
Returning == [total |-> NumReturning, limit |-> 1,
              extras |-> Extras, faults |-> 0]
Reporting == [total |-> NumReporting, limit |-> 1, extras |-> Extras,
              faults |-> MaxFaults]
Surveying == [total |-> NumSurveying, limit |-> 1, extras |-> ConcurrentExtras,
              faults |-> MaxFaults]
Visiting == [total |-> NumVisiting, limit |-> 1, extras |-> ConcurrentExtras,
             faults |-> MaxFaults]
\* the startDate and endDate query parameters, "" standing for a missing one
QueryValues == {"", "1000", "2000", "abc"}
\* the :urlId path parameters
LinkIds == {1, 2}
\* the rows the analytics engine may answer a query with
RowDates == {"1970-01-01", "1970-01-02"}
RowCounts == {"1", "2"}
Rows == [shortCode : Codes, date : RowDates, count : RowCounts]
RowLists == UNION {[1..n -> Rows] : n \in 0..MaxRows}
ValidSession == "s1"
\* the session ids there are, in the order in which list() returns their keys
SessionSeq == <<ValidSession, "s2">>
SessionIds == {SessionSeq[i] : i \in 1..Len(SessionSeq)}
Cookies == {"", ValidSession, "s2"}
\* what the identity provider makes of a login: the authorized account,
\* another account, or no account at all
Logins == {"authorized", "other", "failed"}
Reqs == 1..MaxInFlight

VARIABLES
    kv,        \* URL_SHORTENER: key |-> value, a key being <<prefix, name>>
    kvExpiry,  \* key |-> the time (s) at which the store drops it
    now,       \* wall clock, in seconds
    req,       \* per request: its inputs, locals, position and response;
               \* repeat: the request before it answered 201 for its code;
               \* pastExpiration: its record went in with an expiration
               \* earlier than the clock; before: the body of the overview
               \* that answered just before this one arrived; rows: the
               \* rows the analytics engine returned; randomValues: the
               \* bytes crypto.getRandomValues gave
    log,       \* per request: the store operations it has issued, each
               \* <<operation, key, whether it went through>>
    sink,      \* URL_CLICK_TRACKING: the bag of data points <<urlId, shortCode>>
    faults,    \* how many more operations of the bindings may throw
    arrived,   \* how many requests have arrived
    hist       \* history: firstId[url], the urlId first stored for url since
               \* urlId:{url} was last cleared; expired[code], whether a GET
               \* has answered NotFound for an expired link:{code} ("gone"),
               \* and a record was stored under the code since ("rewritten");
               \* submitted[code], the request body of the creation whose
               \* record is stored under the code; sessions, the session
               \* ids generated so far; registered, the pairs <<url, urlId>>
               \* that were ever stored as urlId:{url}

vars == <<kv, kvExpiry, now, req, log, sink, faults, arrived, hist>>

\* -------------------------------------------------------- key-value store
LinkKey(shortCode) == <<"link", shortCode>>
UrlIdKey(url) == <<"urlId", url>>
SharedLockKey(url) == <<"lock", "">>
LockKey(url) == <<"lock", url>>
SessionKey(sessionId) == <<"session", sessionId>>

KvHas(key) == key \in DOMAIN kv

KvPut(store, key, value) ==
    [k \in (DOMAIN store) \cup {key} |-> IF k = key THEN value ELSE store[k]]

KvDelete(store, key) == [k \in (DOMAIN store) \ {key} |-> store[k]]

KvList(prefix) == {k \in DOMAIN kv : k[1] = prefix}

\* Date.now(), in milliseconds
DateNow == now * 1000

\* ------------------------------------------------------------ requests
Idle ==
    [kind |-> "idle", pc |-> "idle", cookie |-> "", originalUrl |-> "",
     shortCode |-> "", expiration |-> NoExpiration, description |-> "",
     lockId |-> 0, urlId |-> 0, status |-> 0, location |-> "",
     reason |-> "", prefix |-> "", keys |-> <<>>, deletedCount |-> 0,
     repeat |-> FALSE, pastExpiration |-> FALSE,
     allUrlData |-> <<>>, body |-> [success |-> FALSE],
     linkId |-> 0, startDate |-> "", endDate |-> "",
     before |-> [success |-> FALSE], rows |-> <<>>, randomValues |-> <<>>]

\* the response leaves: what remains is what the client sees of it
Respond(rec) ==
    [Idle EXCEPT !.kind = rec.kind, !.pc = "done", !.status = rec.status,
                 !.cookie = rec.cookie,
                 !.reason = rec.reason, !.originalUrl = rec.originalUrl,
                 !.shortCode = rec.shortCode, !.location = rec.location,
                 !.deletedCount = rec.deletedCount, !.repeat = rec.repeat,
                 !.pastExpiration = rec.pastExpiration, !.body = rec.body,
                 !.before = rec.before, !.rows = rec.rows,
                 !.randomValues = rec.randomValues]

Done(r, status, reason) ==
    Respond([req[r] EXCEPT !.status = status, !.reason = reason])

\* nanoid(): an identifier that occurs nowhere in the system
UsedIds ==
    {kv[k] : k \in {x \in DOMAIN kv : x[1] \in {"lock", "urlId"}}}
    \cup {kv[k].urlId : k \in {x \in DOMAIN kv : x[1] = "link"}}
    \cup {req[q].lockId : q \in Reqs} \cup {req[q].urlId : q \in Reqs}
    \cup {e[1] : e \in BagToSet(sink)}

Nanoid == CHOOSE n \in 1..(Cardinality(UsedIds) + 1) : n \notin UsedIds

Logged(r, ops) == [log EXCEPT ![r] = @ \cup ops]

InFlight == {q \in Reqs : req[q].pc \notin {"idle", "done"}}

\* a request arrives and takes the first slot that holds no request in
\* flight; the responses already delivered are forgotten
Arrives(r, client) ==
    /\ arrived < client.total
    /\ Cardinality(InFlight) < client.limit
    /\ r \notin InFlight
    /\ \A q \in 1..(r - 1) : q \in InFlight
    /\ arrived' = arrived + 1

\* a response delivered since the last arrival is a 201 for this short code
JustCreated(shortCode) ==
    \E q \in Reqs : /\ req[q].kind = "shorten" /\ req[q].pc = "done"
                    /\ req[q].status = 201 /\ req[q].shortCode = shortCode

Admit(r, rec) ==
    [q \in Reqs |-> IF q = r THEN rec
                    ELSE IF req[q].pc = "done" THEN Idle ELSE req[q]]

AdmitLog(r, ops) ==
    [q \in Reqs |-> IF q = r THEN ops
                    ELSE IF req[q].pc = "done" THEN {} ELSE log[q]]

\* a store operation goes through (TRUE) or throws (FALSE)
Outcomes == IF faults > 0 THEN {TRUE, FALSE} ELSE {TRUE}

Faulted(ok) == faults' = IF ok THEN faults ELSE faults - 1

InitWith(client) ==
    /\ kv = [k \in {SessionKey(ValidSession)} |-> "gho_token"]
    /\ kvExpiry = [k \in {SessionKey(ValidSession)} |-> SessionTtl]
    /\ now = 0
    /\ req = [r \in Reqs |-> Idle]
    /\ log = [r \in Reqs |-> {}]
    /\ sink = EmptyBag
    /\ faults = client.faults
    /\ arrived = 0
    /\ hist = [firstId |-> <<>>, expired |-> [c \in Codes |-> "never"],
               submitted |-> <<>>, sessions |-> {ValidSession},
               registered |-> {}]

\* ---------------------------------------------------- generateShortCode
\* const characters = "ABCDEFGHJKLMNPQRSTUVWXYZabcdefghijkmnopqrstuvwxyz23456789"
Characters ==
    <<"A", "B", "C", "D", "E", "F", "G", "H", "J", "K", "L", "M", "N", "P",
      "Q", "R", "S", "T", "U", "V", "W", "X", "Y", "Z", "a", "b", "c", "d",
      "e", "f", "g", "h", "i", "j", "k", "m", "n", "o", "p", "q", "r", "s",
      "t", "u", "v", "w", "x", "y", "z", "2", "3", "4", "5", "6", "7", "8",
      "9">>

\* the values of an element of a Uint8Array
Bytes == 0..(ByteValues - 1)

\* characters.charAt(randomValues[i] % characters.length)
CharAt(byte) == Characters[(byte % Len(Characters)) + 1]

\* for (let i = 0; i < length; i++) result += characters.charAt(...)
RECURSIVE Result(_)
Result(randomValues) ==
    IF randomValues = <<>> THEN ""
    ELSE CharAt(Head(randomValues)) \o Result(Tail(randomValues))

\* generateShortCode(length): the call returns the result
GenerateShortCode(r) ==
    /\ req[r].kind = "generate" /\ req[r].pc = "generate"
    /\ req' = [req EXCEPT ![r] =
                 Respond([@ EXCEPT !.shortCode = Result(req[r].randomValues)])]
    /\ UNCHANGED <<kv, kvExpiry, now, log, sink, faults, arrived, hist>>

\* ------------------------------------------------------ authMiddleware
AlwaysAuthorized(cookie, ok) == 0

\* the outcome of the middleware in front of every /api/* route
AuthMiddleware(cookie, ok) ==
    IF cookie = "" THEN 401
    ELSE IF ~ok THEN 500
    ELSE IF ~KvHas(SessionKey(cookie)) THEN 403
    ELSE 0

\* what the overview that has just responded answered, if one has
LastOverview ==
    IF \E q \in Reqs : /\ req[q].kind = "overview" /\ req[q].pc = "done"
                       /\ req[q].body.success
    THEN LET q == CHOOSE q \in Reqs : /\ req[q].kind = "overview"
                                     /\ req[q].pc = "done"
                                     /\ req[q].body.success
         IN  req[q].body
    ELSE [success |-> FALSE]

AuthOps(cookie, ok) ==
    IF cookie = "" THEN {} ELSE {<<"get", SessionKey(cookie), ok>>}

\* an /api/* request arrives and passes through the middleware
ApiArrive(r, client, kind, first, cookie, body) ==
    /\ Arrives(r, client)
    /\ \E ok \in (IF cookie = "" THEN {TRUE} ELSE Outcomes) :
        LET verdict == AuthMiddleware(cookie, ok)
            \* the body is read by the handler, behind the middleware
            fresh == [Idle EXCEPT !.kind = kind, !.cookie = cookie,
                                  !.originalUrl = body.originalUrl,
                                  !.shortCode = body.shortCode,
                                  !.expiration = body.expiration,
                                  !.description = body.description,
                                  !.prefix = body.prefix,
                                  !.linkId = body.linkId,
                                  !.startDate = body.startDate,
                                  !.endDate = body.endDate,
                                  !.repeat = kind = "shorten"
                                             /\ JustCreated(body.shortCode),
                                  !.before = IF kind = "overview"
                                             THEN LastOverview
                                             ELSE [success |-> FALSE]]
        IN  /\ req' = Admit(r, IF verdict = 0
                                THEN [fresh EXCEPT !.pc = first]
                                ELSE [Idle EXCEPT !.kind = kind,
                                                  !.cookie = cookie,
                                                  !.pc = "done",
                                                  !.status = verdict])
            /\ log' = AdmitLog(r, AuthOps(cookie, ok))
            /\ Faulted(ok)
    /\ UNCHANGED <<kv, kvExpiry, now, sink, hist>>

\* the body of a request that has none
NoBody ==
    [originalUrl |-> "", shortCode |-> "", expiration |-> NoExpiration,
     description |-> "", prefix |-> "", linkId |-> 0, startDate |-> "",
     endDate |-> ""]

\* ------------------------------------------------------ POST /api/shorten
\* shortCode = generateShortCode() when the body names none: some code
ShortenArrive(r, client) ==
    \E cookie \in Cookies, originalUrl \in Urls, shortCode \in Codes,
       extra \in client.extras :
        ApiArrive(r, client, "shorten", "acquireLock", cookie,
                  [NoBody EXCEPT !.originalUrl = originalUrl,
                                 !.shortCode = shortCode,
                                 !.expiration = extra[1],
                                 !.description = extra[2]])

AlwaysAcquired(ok, lockId) == lockId

\* acquireLock: the token when the put went through, null (0) when it threw
AcquireLockResult(ok, lockId) == IF ok THEN lockId ELSE 0

ShortenAcquireLock(r) ==
    /\ req[r].kind = "shorten" /\ req[r].pc = "acquireLock"
    /\ \E ok \in Outcomes :
        LET key == LockKey(req[r].originalUrl)
            lockId == AcquireLockResult(ok, Nanoid)
        IN  /\ Faulted(ok)
            /\ IF ok
               THEN /\ kv' = KvPut(kv, key, Nanoid)
                    /\ kvExpiry' = KvPut(kvExpiry, key, now + LockTtl)
               ELSE UNCHANGED <<kv, kvExpiry>>
            /\ req' = [req EXCEPT ![r] =
                         IF lockId = 0
                         THEN Done(r, 429, "busy")
                         ELSE [@ EXCEPT !.pc = "checkCode", !.lockId = lockId]]
            /\ log' = Logged(r, {<<"put", key, ok>>})
    /\ UNCHANGED <<now, sink, arrived, hist>>

NeverTaken(key) == FALSE

\* if (existingUrl): a record is stored under the short code
CodeTaken(key) == KvHas(key)

\* const existingUrl = await get("link:" + shortCode); if (existingUrl) -> 400
ShortenCheckCode(r) ==
    /\ req[r].kind = "shorten" /\ req[r].pc = "checkCode"
    /\ \E ok \in Outcomes :
        /\ Faulted(ok)
        /\ log' = Logged(r, {<<"get", LinkKey(req[r].shortCode), ok>>})
        /\ req' = [req EXCEPT ![r] =
                  IF ~ok
                  THEN [@ EXCEPT !.pc = "releaseLock", !.status = 500]
                  ELSE IF CodeTaken(LinkKey(req[r].shortCode))
                  THEN [@ EXCEPT !.pc = "releaseLock", !.status = 400]
                  ELSE [@ EXCEPT !.pc = "getUrlId"]]
    /\ UNCHANGED <<kv, kvExpiry, now, sink, arrived, hist>>

AlwaysNewUrlId(key) == TRUE

\* if (!urlId): whether a new identity has to be created
NeedsNewUrlId(key) == ~KvHas(key)

\* let urlId = await get(`urlId:${originalUrl}`); if (!urlId) urlId = nanoid()
ShortenGetUrlId(r) ==
    /\ req[r].kind = "shorten" /\ req[r].pc = "getUrlId"
    /\ LET key == UrlIdKey(req[r].originalUrl)
       IN  \E ok \in Outcomes :
            /\ log' = Logged(r, {<<"get", key, ok>>})
            /\ Faulted(ok)
            /\ IF ~ok
               THEN /\ req' = [req EXCEPT ![r] =
                                 [@ EXCEPT !.pc = "releaseLock", !.status = 500]]
               ELSE IF NeedsNewUrlId(key)
               THEN req' = [req EXCEPT ![r] =
                                 [@ EXCEPT !.pc = "putUrlId",
                                           !.urlId = Nanoid]]
               ELSE /\ req' = [req EXCEPT ![r] =
                                 [@ EXCEPT !.pc = "putLink", !.urlId = kv[key]]]
    /\ UNCHANGED <<kv, kvExpiry, now, sink, arrived, hist>>

\* await put(`urlId:${originalUrl}`, urlId)
ShortenPutUrlId(r) ==
    /\ req[r].kind = "shorten" /\ req[r].pc = "putUrlId"
    /\ LET key == UrlIdKey(req[r].originalUrl)
       IN  \E ok \in Outcomes :
            /\ log' = Logged(r, {<<"put", key, ok>>})
            /\ Faulted(ok)
            /\ IF ok
               THEN /\ kv' = KvPut(kv, key, req[r].urlId)
                    /\ kvExpiry' = KvDelete(kvExpiry, key)
                    /\ req' = [req EXCEPT ![r] = [@ EXCEPT !.pc = "putLink"]]
                    /\ hist' = [hist EXCEPT
                                 !.firstId =
                                     IF req[r].originalUrl \in DOMAIN @ THEN @
                                     ELSE KvPut(@, req[r].originalUrl,
                                                req[r].urlId),
                                 !.registered =
                                     @ \cup {<<req[r].originalUrl,
                                               req[r].urlId>>}]
               ELSE /\ req' = [req EXCEPT ![r] =
                                 [@ EXCEPT !.pc = "releaseLock", !.status = 500]]
                    /\ UNCHANGED <<kv, kvExpiry, hist>>
    /\ UNCHANGED <<now, sink, arrived>>

KVDataWithSentinel(originalUrl, description, urlId, expiration) ==
    [originalUrl |-> originalUrl, description |-> description,
     urlId |-> urlId, expiration |-> expiration]

KVDataUnregistered(originalUrl, description, urlId, expiration) ==
    [originalUrl |-> originalUrl, description |-> description,
     urlId |-> urlId + 1, expiration |-> expiration]

\* JSON.stringify(kvData): the expiration field is set only when it is not -1
KVDataJson(originalUrl, description, urlId, expiration) ==
    IF expiration # NoExpiration
    THEN [originalUrl |-> originalUrl, description |-> description,
          urlId |-> urlId, expiration |-> expiration]
    ELSE [originalUrl |-> originalUrl, description |-> description,
          urlId |-> urlId]

\* await put(`link:${shortCode}`, JSON.stringify(kvData)) -> 201
ShortenPutLink(r) ==
    /\ req[r].kind = "shorten" /\ req[r].pc = "putLink"
    /\ LET key == LinkKey(req[r].shortCode)
       IN  \E ok \in Outcomes :
            /\ log' = Logged(r, {<<"put", key, ok>>})
            /\ Faulted(ok)
            /\ IF ok
               THEN /\ kv' = KvPut(kv, key,
                                   KVDataJson(req[r].originalUrl,
                                              req[r].description, req[r].urlId,
                                              req[r].expiration))
                    /\ kvExpiry' = KvDelete(kvExpiry, key)
                    /\ req' = [req EXCEPT ![r] =
                                 [@ EXCEPT !.pc = "releaseLock", !.status = 201,
                                           !.pastExpiration =
                                               /\ req[r].expiration # NoExpiration
                                               /\ req[r].expiration < DateNow]]
                    /\ hist' = [hist EXCEPT
                                 !.expired[req[r].shortCode] =
                                     IF @ = "never" THEN @ ELSE "rewritten",
                                 !.submitted =
                                     KvPut(@, req[r].shortCode,
                                           [originalUrl |-> req[r].originalUrl,
                                            description |-> req[r].description,
                                            expiration |-> req[r].expiration])]
               ELSE /\ req' = [req EXCEPT ![r] =
                                 [@ EXCEPT !.pc = "releaseLock", !.status = 500]]
                    /\ UNCHANGED <<kv, kvExpiry, hist>>
    /\ UNCHANGED <<now, sink, arrived>>

NeverOwnsLock(key, lockId) == FALSE

\* releaseLock: if (currentLockId === lockId)
OwnsLock(key, lockId) == KvHas(key) /\ kv[key] = lockId

ReleaseLockThrows(rec, ok) == IF ok THEN rec ELSE [rec EXCEPT !.status = 500]

\* catch (error) { console.error(...) }: whether the operation of releaseLock
\* went through or threw, the response is the one the handler had made
ReleaseLockCatch(rec, ok) == rec

\* finally { await releaseLock(...) }: const currentLockId = await get(lock)
ReleaseLockGet(r) ==
    /\ req[r].kind = "shorten" /\ req[r].pc = "releaseLock"
    /\ LET key == LockKey(req[r].originalUrl)
       IN  \E ok \in Outcomes :
            /\ log' = Logged(r, {<<"get", key, ok>>})
            /\ Faulted(ok)
            /\ req' = [req EXCEPT ![r] =
                         IF ok /\ OwnsLock(key, req[r].lockId)
                         THEN [@ EXCEPT !.pc = "releaseDelete"]
                         ELSE Respond(ReleaseLockCatch(@, ok))]
    /\ UNCHANGED <<kv, kvExpiry, now, sink, arrived, hist>>

\* await delete(`lock:${url}`); an error is logged and swallowed
ReleaseLockDelete(r) ==
    /\ req[r].kind = "shorten" /\ req[r].pc = "releaseDelete"
    /\ LET key == LockKey(req[r].originalUrl)
       IN  \E ok \in Outcomes :
            /\ log' = Logged(r, {<<"delete", key, ok>>})
            /\ Faulted(ok)
            /\ IF ok
               THEN /\ kv' = KvDelete(kv, key)
                    /\ kvExpiry' = KvDelete(kvExpiry, key)
               ELSE UNCHANGED <<kv, kvExpiry>>
            /\ req' = [req EXCEPT ![r] = Respond(ReleaseLockCatch(@, ok))]
    /\ UNCHANGED <<now, sink, arrived, hist>>

\* --------------------------------------------------------- GET /:shortCode
\* if (expiration && Date.now() > expiration), on the parsed record
IsExpired(data) ==
    /\ "expiration" \in DOMAIN data
    /\ data.expiration # 0
    /\ DateNow > data.expiration

UntaggedDataPoint(shortCode, urlId) == <<urlId, "">>

\* logAnalytics: writeDataPoint({blobs: [String(urlId), String(shortCode)]})
DataPoint(shortCode, urlId) == <<urlId, shortCode>>

\* the request arrives (no middleware on this route); await get("link:" + shortCode);
\* a live record: await logAnalytics(...), then c.redirect(originalUrl)
RedirectArrive(r, client) ==
    /\ Arrives(r, client)
    /\ \E shortCode \in Codes, ok \in Outcomes, written \in Outcomes :
        LET key == LinkKey(shortCode)
            fresh == [Idle EXCEPT !.kind = "redirect", !.shortCode = shortCode]
            live == ok /\ KvHas(key) /\ ~IsExpired(kv[key])
        IN  /\ written \/ live
            /\ Faulted(ok /\ written)
            /\ log' = AdmitLog(r, {<<"get", key, ok>>}
                                   \cup IF live
                                        THEN {<<"writeDataPoint", key, written>>}
                                        ELSE {})
            /\ req' = Admit(r,
                    IF ~ok THEN Respond([fresh EXCEPT !.status = 500])
                    ELSE IF ~KvHas(key)
                    THEN Respond([fresh EXCEPT !.status = 404, !.reason = "absent"])
                    ELSE IF IsExpired(kv[key])
                    THEN [fresh EXCEPT !.pc = "deleteExpired"]
                    ELSE IF ~written THEN Respond([fresh EXCEPT !.status = 500])
                    ELSE Respond([fresh EXCEPT !.status = 302,
                                               !.location = kv[key].originalUrl]))
            /\ sink' = IF live /\ written
                       THEN sink (+) SetToBag({DataPoint(shortCode, kv[key].urlId)})
                       ELSE sink
    /\ UNCHANGED <<kv, kvExpiry, now, hist>>

KeepExpired(store, key) == store

\* await delete("link:" + shortCode), on the store and on its times to live
DropExpired(store, key) == KvDelete(store, key)

\* await delete("link:" + shortCode); return c.notFound()
RedirectDeleteExpired(r) ==
    /\ req[r].kind = "redirect" /\ req[r].pc = "deleteExpired"
    /\ LET key == LinkKey(req[r].shortCode)
       IN  \E ok \in Outcomes :
            /\ log' = Logged(r, {<<"delete", key, ok>>})
            /\ Faulted(ok)
            /\ IF ok
               THEN /\ kv' = DropExpired(kv, key)
                    /\ kvExpiry' = DropExpired(kvExpiry, key)
                    /\ req' = [req EXCEPT ![r] = Done(r, 404, "expired")]
                    /\ hist' = [hist EXCEPT
                                 !.expired[req[r].shortCode] = "gone",
                                 !.submitted = DropExpired(@, req[r].shortCode)]
               ELSE /\ req' = [req EXCEPT ![r] = Done(r, 500, "")]
                    /\ UNCHANGED <<kv, kvExpiry, hist>>
    /\ UNCHANGED <<now, sink, arrived>>

\* ------------------------------- GET /api/clear/link, GET /api/clear/urlId
\* list({prefix}): the keys under the prefix, in lexicographic order
NameSeq(prefix) ==
    IF prefix = "link" THEN CodeSeq
    ELSE IF prefix = "urlId" THEN UrlSeq
    ELSE SessionSeq

ListLinkKeys(prefix) ==
    LET names == SelectSeq(CodeSeq, LAMBDA n : KvHas(<<"link", n>>))
    IN  [i \in 1..Len(names) |-> <<"link", names[i]>>]

ListKeys(prefix) ==
    LET names == SelectSeq(NameSeq(prefix), LAMBDA n : KvHas(<<prefix, n>>))
    IN  [i \in 1..Len(names) |-> <<prefix, names[i]>>]

ClearArrive(r, client) ==
    \E cookie \in Cookies, prefix \in {"link", "urlId"} :
        ApiArrive(r, client, "clear", "clearList", cookie,
                  [NoBody EXCEPT !.prefix = prefix])

\* let keys = await list({prefix}); an empty listing answers at once
ClearList(r) ==
    /\ req[r].kind = "clear" /\ req[r].pc = "clearList"
    /\ \E ok \in Outcomes :
        /\ Faulted(ok)
        /\ log' = Logged(r, {<<"list", <<req[r].prefix, "">>, ok>>})
        /\ req' = [req EXCEPT ![r] =
                     IF ~ok THEN Done(r, 500, "")
                     ELSE IF ListKeys(req[r].prefix) = <<>> THEN Done(r, 200, "")
                     ELSE [@ EXCEPT !.pc = "clearDelete",
                                    !.keys = ListKeys(req[r].prefix)]]
    /\ UNCHANGED <<kv, kvExpiry, now, sink, arrived, hist>>

\* for (const key of keys.keys) { await delete(key.name); deletedCount++ }
ClearDelete(r) ==
    /\ req[r].kind = "clear" /\ req[r].pc = "clearDelete"
    /\ LET key == Head(req[r].keys)
       IN  \E ok \in Outcomes :
            /\ log' = Logged(r, {<<"delete", key, ok>>})
            /\ Faulted(ok)
            /\ IF ok
               THEN /\ kv' = KvDelete(kv, key)
                    /\ kvExpiry' = KvDelete(kvExpiry, key)
                    /\ req' = [req EXCEPT ![r] =
                          LET next == [@ EXCEPT !.keys = Tail(@),
                                                !.deletedCount = @ + 1]
                          IN  IF next.keys = <<>>
                              THEN Respond([next EXCEPT !.status = 200])
                              ELSE next]
                    /\ hist' = [hist EXCEPT
                                 !.firstId = IF key[1] = "urlId"
                                             THEN KvDelete(@, key[2]) ELSE @,
                                 !.submitted = IF key[1] = "link"
                                               THEN KvDelete(@, key[2]) ELSE @]
               ELSE /\ req' = [req EXCEPT ![r] = Done(r, 500, "")]
                    /\ UNCHANGED <<kv, kvExpiry, hist>>
    /\ UNCHANGED <<now, sink, arrived>>

\* ------------------------------------------------- GET /api/dashboard/all
KVPairWithoutDescription(name, parsedData) ==
    [shortCode |-> name, originalUrl |-> parsedData.originalUrl,
     urlId |-> parsedData.urlId]

\* const kvPair = {shortCode, originalUrl, urlId}, with the expiration and
\* the description of the parsed record when they are not undefined
KVPair(name, parsedData) ==
    LET hasExpiration == "expiration" \in DOMAIN parsedData
        hasDescription == "description" \in DOMAIN parsedData
    IN  IF hasExpiration /\ hasDescription
        THEN [shortCode |-> name, originalUrl |-> parsedData.originalUrl,
              urlId |-> parsedData.urlId,
              expiration |-> parsedData.expiration,
              description |-> parsedData.description]
        ELSE IF hasExpiration
        THEN [shortCode |-> name, originalUrl |-> parsedData.originalUrl,
              urlId |-> parsedData.urlId,
              expiration |-> parsedData.expiration]
        ELSE IF hasDescription
        THEN [shortCode |-> name, originalUrl |-> parsedData.originalUrl,
              urlId |-> parsedData.urlId,
              description |-> parsedData.description]
        ELSE [shortCode |-> name, originalUrl |-> parsedData.originalUrl,
              urlId |-> parsedData.urlId]

\* return c.json({success: true, data: allUrlData})
ListAllResponse(rec) ==
    Respond([rec EXCEPT !.status = 200,
                        !.body = [success |-> TRUE, data |-> rec.allUrlData]])

DashboardArrive(r, client) ==
    \E cookie \in Cookies :
        ApiArrive(r, client, "dashboard", "dashboardList", cookie, NoBody)

\* const { keys } = await list({ prefix: "link:" }); a throw leaves the handler
DashboardList(r) ==
    /\ req[r].kind = "dashboard" /\ req[r].pc = "dashboardList"
    /\ \E ok \in Outcomes :
        /\ Faulted(ok)
        /\ log' = Logged(r, {<<"list", <<"link", "">>, ok>>})
        /\ req' = [req EXCEPT ![r] =
                     IF ~ok THEN Done(r, 500, "")
                     ELSE IF ListKeys("link") = <<>> THEN ListAllResponse(@)
                     ELSE [@ EXCEPT !.pc = "dashboardGet",
                                    !.keys = ListKeys("link")]]
    /\ UNCHANGED <<kv, kvExpiry, now, sink, arrived, hist>>

\* for (const key of keys) { const urlData = await get(key.name);
\* if (urlData) allUrlData.push(kvPair) }
DashboardGet(r) ==
    /\ req[r].kind = "dashboard" /\ req[r].pc = "dashboardGet"
    /\ LET key == Head(req[r].keys)
       IN  \E ok \in Outcomes :
            /\ Faulted(ok)
            /\ log' = Logged(r, {<<"get", key, ok>>})
            /\ req' = [req EXCEPT ![r] =
                  IF ~ok THEN Done(r, 500, "")
                  ELSE LET next == [@ EXCEPT
                                      !.keys = Tail(@),
                                      !.allUrlData =
                                          IF KvHas(key)
                                          THEN Append(@, KVPair(key[2], kv[key]))
                                          ELSE @]
                       IN  IF next.keys = <<>> THEN ListAllResponse(next)
                           ELSE next]
    /\ UNCHANGED <<kv, kvExpiry, now, sink, arrived, hist>>

\* ------------------------------------------- GET /api/analytics/url/:urlId
\* parseInt(string): the integer a decimal string starts with, NaN otherwise
ParseInt(string) ==
    CASE string = "1000" -> [nan |-> FALSE, value |-> 1000]
      [] string = "2000" -> [nan |-> FALSE, value |-> 2000]
      [] \E n \in 0..9 : string = ToString(n) ->
            [nan |-> FALSE, value |-> CHOOSE n \in 0..9 : string = ToString(n)]
      [] OTHER -> [nan |-> TRUE, value |-> 0]

DateGt(x, y) == ~x.nan /\ ~y.nan /\ x.value > y.value

\* new Date(x) >= new Date(y), on the time values; false when either is NaN
DateGeq(x, y) == ~x.nan /\ ~y.nan /\ x.value >= y.value

\* if (!startDateTimestamp || !endDateTimestamp): the default window is used
DefaultWindow(startDateTimestamp, endDateTimestamp) ==
    startDateTimestamp = "" \/ endDateTimestamp = ""

\* formatDateTime(timestamp, '%Y-%m-%d') of the data points: the specifications
\* that query the engine do so on the day on which the points were written
QueryDate == "1970-01-01"

\* the rows the analytics engine returns for the query on blob1 = urlId,
\* grouped by short code and date: one row {shortCode, date, count} for every
\* short code with data points of that urlId, the count as a decimal string
QueryRows(urlId) ==
    LET counted == SelectSeq(CodeSeq,
                             LAMBDA c : CopiesIn(<<urlId, c>>, sink) > 0)
    IN  [i \in 1..Len(counted) |->
            [shortCode |-> counted[i], date |-> QueryDate,
             count |-> ToString(CopiesIn(<<urlId, counted[i]>>, sink))]]

PushFront(response, row) ==
    LET count == ParseInt(row.count).value
        series == IF row.shortCode \in DOMAIN response.shortCodes
                  THEN response.shortCodes[row.shortCode]
                  ELSE <<>>
    IN  [response EXCEPT
           !.shortCodes = KvPut(@, row.shortCode,
                                <<[date |-> row.date, count |-> count]>>
                                \o series),
           !.totalClicks = @ + count]

\* the body of forEach((row) => ...): the row's {date, parseInt(count)} is
\* pushed onto the series of its short code, which is created when it is
\* not there, and parseInt(count) is added to totalClicks
FoldRow(response, row) ==
    LET count == ParseInt(row.count).value
        series == IF row.shortCode \in DOMAIN response.shortCodes
                  THEN response.shortCodes[row.shortCode]
                  ELSE <<>>
    IN  [response EXCEPT
           !.shortCodes = KvPut(@, row.shortCode,
                                Append(series, [date |-> row.date,
                                                count |-> count])),
           !.totalClicks = @ + count]

\* analyticsData.data.forEach(...), in the order of the rows
RECURSIVE FoldRows(_, _)
FoldRows(response, rows) ==
    IF rows = <<>> THEN response
    ELSE FoldRows(FoldRow(response, Head(rows)), Tail(rows))

\* the response: {success, urlId, shortCodes: {}, totalClicks: 0}, then folded
AnalyticsResponse(urlId, rows) ==
    FoldRows([success |-> TRUE, urlId |-> urlId, shortCodes |-> <<>>,
              totalClicks |-> 0], rows)

AnalyticsArrive(r, client) ==
    \E cookie \in Cookies, linkId \in LinkIds,
       startDate \in QueryValues, endDate \in QueryValues :
        ApiArrive(r, client, "analytics", "analyticsValidate", cookie,
                  [NoBody EXCEPT !.linkId = linkId, !.startDate = startDate,
                                 !.endDate = endDate])

\* the handler up to the fetch: the dates are parsed and compared
AnalyticsValidate(r) ==
    /\ req[r].kind = "analytics" /\ req[r].pc = "analyticsValidate"
    /\ req' = [req EXCEPT ![r] =
                 IF /\ ~DefaultWindow(req[r].startDate, req[r].endDate)
                    /\ DateGeq(ParseInt(req[r].startDate),
                               ParseInt(req[r].endDate))
                 THEN Done(r, 400, "Start date must be before end date.")
                 ELSE [@ EXCEPT !.pc = "analyticsQuery"]]
    /\ UNCHANGED <<kv, kvExpiry, now, log, sink, faults, arrived, hist>>

\* what a call of the analytics engine comes to: a result, a response that is
\* not ok, or an exception
SinkOutcomes == IF faults > 0 THEN {"ok", "notOk", "throws"} ELSE {"ok"}

QueryNotFound(rec, message) ==
    Respond([rec EXCEPT !.status = 404, !.reason = message,
                        !.body = AnalyticsResponse(rec.linkId, rec.rows)])

\* return c.json({success: false, message}, 500)
QueryFailure(rec, message) ==
    Respond([rec EXCEPT !.status = 500, !.reason = message])

\* const analyticsEngineResponse = await fetch(API, ...): 500 when the
\* response is not ok or the fetch throws
AnalyticsQuery(r) ==
    /\ req[r].kind = "analytics" /\ req[r].pc = "analyticsQuery"
    /\ \E outcome \in SinkOutcomes :
        /\ Faulted(outcome = "ok")
        /\ log' = Logged(r, {<<"query", <<"sink", "url">>, outcome = "ok">>})
        /\ req' = [req EXCEPT ![r] =
                     IF outcome = "ok"
                     THEN [@ EXCEPT !.pc = "analyticsFold",
                                    !.rows = QueryRows(req[r].linkId)]
                     ELSE IF outcome = "notOk"
                     THEN QueryFailure(@, "Error querying analytics data.")
                     ELSE QueryFailure(@, "An unexpected error occurred while processing the analytics request.")]
    /\ UNCHANGED <<kv, kvExpiry, now, sink, arrived, hist>>

\* const analyticsData = await analyticsEngineResponse.json();
\* analyticsData.data.forEach(...): 200 with the folded rows; a payload that
\* is not JSON, or whose data is no array of rows, throws into the catch
AnalyticsFold(r) ==
    /\ req[r].kind = "analytics" /\ req[r].pc = "analyticsFold"
    /\ \E ok \in Outcomes :
        /\ Faulted(ok)
        /\ log' = Logged(r, {<<"json", <<"sink", "url">>, ok>>})
        /\ req' = [req EXCEPT ![r] =
                     IF ok
                     THEN Respond([@ EXCEPT
                                     !.status = 200,
                                     !.body = AnalyticsResponse(req[r].linkId,
                                                                req[r].rows)])
                     ELSE QueryFailure(@, "An unexpected error occurred while processing the analytics request.")]
    /\ UNCHANGED <<kv, kvExpiry, now, sink, arrived, hist>>

\* ------------------------------------------- GET /api/analytics/overview
\* the response when no link: key is listed
EmptyOverview ==
    [success |-> TRUE,
     overview |-> [totalClicks |-> 0, totalLinks |-> 0, avgClicksPerLink |-> 0],
     recentLinks |-> <<>>]

\* parseFloat(avgClicksPerLink.toFixed(1)), in tenths
AvgClicksPerLink(totalClicks, totalLinks) ==
    IF totalLinks # 0 THEN (((totalClicks * 100) \div totalLinks) + 5) \div 10
    ELSE 0

DatedOverview(totalClicks, totalLinks) ==
    [success |-> TRUE,
     data |-> [totalClicks |-> totalClicks, totalLinks |-> totalLinks,
               avgClicksPerLink |-> now]]

\* the response when links are listed and the click count was fetched
OverviewResponse(totalClicks, totalLinks) ==
    [success |-> TRUE,
     data |-> [totalClicks |-> totalClicks, totalLinks |-> totalLinks,
               avgClicksPerLink |-> AvgClicksPerLink(totalClicks, totalLinks)]]

\* fetchAnalyticsData(c): the aggregate click count of the dataset
FetchAnalyticsData == [totalClicks |-> BagCardinality(sink)]

OverviewArrive(r, client) ==
    \E cookie \in Cookies :
        ApiArrive(r, client, "overview", "overviewList", cookie, NoBody)

\* const { keys } = await list({ prefix: "link:" }); if (!keys.length) ...
OverviewList(r) ==
    /\ req[r].kind = "overview" /\ req[r].pc = "overviewList"
    /\ \E ok \in Outcomes :
        /\ Faulted(ok)
        /\ log' = Logged(r, {<<"list", <<"link", "">>, ok>>})
        /\ req' = [req EXCEPT ![r] =
                     IF ~ok THEN Done(r, 500, "Failed to fetch analytics data")
                     ELSE IF Len(ListKeys("link")) = 0
                     THEN Respond([@ EXCEPT !.status = 200,
                                            !.body = EmptyOverview])
                     ELSE [@ EXCEPT !.pc = "overviewFetch",
                                    !.keys = ListKeys("link")]]
    /\ UNCHANGED <<kv, kvExpiry, now, sink, arrived, hist>>

\* const analyticsData = await fetchAnalyticsData(c); if (!analyticsData) 500
OverviewFetch(r) ==
    /\ req[r].kind = "overview" /\ req[r].pc = "overviewFetch"
    /\ \E outcome \in SinkOutcomes :
        /\ Faulted(outcome = "ok")
        /\ log' = Logged(r, {<<"query", <<"sink", "overview">>, outcome = "ok">>})
        /\ req' = [req EXCEPT ![r] =
                     IF outcome = "ok"
                     THEN Respond([@ EXCEPT
                                     !.status = 200,
                                     !.body = OverviewResponse(
                                                  FetchAnalyticsData.totalClicks,
                                                  Len(req[r].keys))])
                     ELSE Done(r, 500, "Failed to fetch analytics data")]
    /\ UNCHANGED <<kv, kvExpiry, now, sink, arrived, hist>>

\* ------------------------------------------------------------ /auth/*
\* nanoid() for a session: an id that was never generated before
NewSession == CHOOSE s \in SessionIds : s \notin hist.sessions

\* POST /auth/callback: a request that carries a session cookie is answered
\* "Already authenticated" at once; otherwise the code is exchanged with the
\* identity provider, and for the authorized account a session is stored:
\* await put(`session:${sessionId}`, access_token, {expirationTtl})
CallbackArrive(r, client) ==
    /\ Arrives(r, client)
    /\ \E cookie \in Cookies, login \in Logins, ok \in Outcomes :
        LET fresh == [Idle EXCEPT !.kind = "callback", !.cookie = cookie]
            stores == cookie = "" /\ login = "authorized"
            key == SessionKey(NewSession)
        IN  /\ stores => hist.sessions # SessionIds
            /\ ok \/ stores
            /\ Faulted(ok)
            /\ log' = AdmitLog(r, IF stores THEN {<<"put", key, ok>>} ELSE {})
            /\ IF stores /\ ok
               THEN /\ kv' = KvPut(kv, key, "gho_token")
                    /\ kvExpiry' = KvPut(kvExpiry, key, now + SessionTtl)
               ELSE UNCHANGED <<kv, kvExpiry>>
            /\ hist' = IF stores
                       THEN [hist EXCEPT !.sessions = @ \cup {NewSession}]
                       ELSE hist
            /\ req' = Admit(r,
                  IF cookie # ""
                  THEN Respond([fresh EXCEPT !.status = 200,
                                             !.reason = "Already authenticated",
                                             !.body = [success |-> TRUE]])
                  ELSE IF login = "failed"
                  THEN Respond([fresh EXCEPT !.status = 200,
                                             !.reason = "Failed to fetch user data"])
                  ELSE IF login = "other"
                  THEN Respond([fresh EXCEPT !.status = 200,
                                             !.reason = "Authentication failed"])
                  ELSE IF ~ok THEN Respond([fresh EXCEPT !.status = 500])
                  ELSE Respond([fresh EXCEPT !.status = 200,
                                             !.cookie = NewSession,
                                             !.reason = "Authentication successful",
                                             !.body = [success |-> TRUE]]))
    /\ UNCHANGED <<now, sink>>

KeepSession(store, key) == store

\* await delete(`session:${sessionId}`), on the store and on its times to live
DeleteSession(store, key) == KvDelete(store, key)

\* POST /auth/logout: without cookie "Session not found"; otherwise the
\* session record is deleted and the cookie cleared; a throw leaves the handler
LogoutArrive(r, client) ==
    /\ Arrives(r, client)
    /\ \E cookie \in Cookies, ok \in Outcomes :
        LET fresh == [Idle EXCEPT !.kind = "logout", !.cookie = cookie]
            key == SessionKey(cookie)
        IN  /\ ok \/ cookie # ""
            /\ Faulted(ok)
            /\ log' = AdmitLog(r, IF cookie # "" THEN {<<"delete", key, ok>>}
                                  ELSE {})
            /\ IF cookie # "" /\ ok
               THEN /\ kv' = DeleteSession(kv, key)
                    /\ kvExpiry' = DeleteSession(kvExpiry, key)
               ELSE UNCHANGED <<kv, kvExpiry>>
            /\ req' = Admit(r,
                  IF cookie = ""
                  THEN Respond([fresh EXCEPT !.status = 200,
                                             !.reason = "Session not found"])
                  ELSE IF ~ok THEN Respond([fresh EXCEPT !.status = 500])
                  ELSE Respond([fresh EXCEPT !.status = 200,
                                             !.reason = "Logged out successfully",
                                             !.body = [success |-> TRUE]]))
    /\ UNCHANGED <<now, sink, hist>>

\* GET /auth/clear: let keys = await list({ prefix: "session:" })
AuthClearArrive(r, client) ==
    /\ Arrives(r, client)
    /\ \E ok \in Outcomes :
        LET fresh == [Idle EXCEPT !.kind = "authClear", !.prefix = "session"]
        IN  /\ Faulted(ok)
            /\ log' = AdmitLog(r, {<<"list", <<"session", "">>, ok>>})
            /\ req' = Admit(r,
                  IF ~ok THEN Respond([fresh EXCEPT !.status = 500])
                  ELSE IF ListKeys("session") = <<>>
                  THEN Respond([fresh EXCEPT !.status = 200,
                                             !.body = [success |-> TRUE]])
                  ELSE [fresh EXCEPT !.pc = "authClearDelete",
                                     !.keys = ListKeys("session")])
    /\ UNCHANGED <<kv, kvExpiry, now, sink, hist>>

\* for (const key of keys.keys) { await delete(key.name); deletedCount++ }
AuthClearDelete(r) ==
    /\ req[r].kind = "authClear" /\ req[r].pc = "authClearDelete"
    /\ LET key == Head(req[r].keys)
       IN  \E ok \in Outcomes :
            /\ log' = Logged(r, {<<"delete", key, ok>>})
            /\ Faulted(ok)
            /\ IF ok
               THEN /\ kv' = KvDelete(kv, key)
                    /\ kvExpiry' = KvDelete(kvExpiry, key)
                    /\ req' = [req EXCEPT ![r] =
                          LET next == [@ EXCEPT !.keys = Tail(@),
                                                !.deletedCount = @ + 1]
                          IN  IF next.keys = <<>>
                              THEN Respond([next EXCEPT
                                              !.status = 200,
                                              !.body = [success |-> TRUE]])
                              ELSE next]
               ELSE /\ req' = [req EXCEPT ![r] = Done(r, 500, "")]
                    /\ UNCHANGED <<kv, kvExpiry>>
    /\ UNCHANGED <<now, sink, arrived, hist>>

\* ------------------------------------------------------------- time
\* the clock advances; the store drops the keys whose time to live elapsed
Expired(t) == {k \in DOMAIN kvExpiry : kvExpiry[k] <= t}

Tick ==
    /\ now + TickLen <= MaxTime
    /\ now' = now + TickLen
    /\ kv' = [k \in (DOMAIN kv) \ Expired(now + TickLen) |-> kv[k]]
    /\ kvExpiry' = [k \in (DOMAIN kvExpiry) \ Expired(now + TickLen) |-> kvExpiry[k]]
    /\ UNCHANGED <<req, log, sink, faults, arrived, hist>>

\* the lifetime of a session passes
DayPasses ==
    /\ now + SessionTtl <= MaxDays * SessionTtl + MaxTime
    /\ now' = now + SessionTtl
    /\ kv' = [k \in (DOMAIN kv) \ Expired(now + SessionTtl) |-> kv[k]]
    /\ kvExpiry' = [k \in (DOMAIN kvExpiry) \ Expired(now + SessionTtl) |->
                       kvExpiry[k]]
    /\ UNCHANGED <<req, log, sink, faults, arrived, hist>>

NextWith(client) ==
    \/ \E r \in Reqs : ShortenArrive(r, client)
    \/ \E r \in Reqs : ShortenAcquireLock(r)
    \/ \E r \in Reqs : ShortenCheckCode(r)
    \/ \E r \in Reqs : ShortenGetUrlId(r)
    \/ \E r \in Reqs : ShortenPutUrlId(r)
    \/ \E r \in Reqs : ShortenPutLink(r)
    \/ \E r \in Reqs : ReleaseLockGet(r)
    \/ \E r \in Reqs : ReleaseLockDelete(r)
    \/ \E r \in Reqs : RedirectArrive(r, client)
    \/ \E r \in Reqs : RedirectDeleteExpired(r)
    \/ \E r \in Reqs : ClearArrive(r, client)
    \/ \E r \in Reqs : ClearList(r)
    \/ \E r \in Reqs : ClearDelete(r)
    \/ Tick

Init == InitWith(Concurrent)

Next == NextWith(Concurrent)

\* GET /api/analytics/overview
OverviewNext(client) ==
    \/ \E r \in Reqs : OverviewArrive(r, client)
    \/ \E r \in Reqs : OverviewList(r)
    \/ \E r \in Reqs : OverviewFetch(r)

\* the reporting routes, in front of which the middleware stands as well
ReportNext(client) ==
    \/ \E r \in Reqs : DashboardArrive(r, client)
    \/ \E r \in Reqs : DashboardList(r)
    \/ \E r \in Reqs : DashboardGet(r)
    \/ \E r \in Reqs : AnalyticsArrive(r, client)
    \/ \E r \in Reqs : AnalyticsValidate(r)
    \/ \E r \in Reqs : AnalyticsQuery(r)
    \/ \E r \in Reqs : AnalyticsFold(r)
    \/ OverviewNext(client)

\* the authentication routes, and the time a session lives
AuthNext(client) ==
    \/ \E r \in Reqs : CallbackArrive(r, client)
    \/ \E r \in Reqs : LogoutArrive(r, client)
    \/ \E r \in Reqs : AuthClearArrive(r, client)
    \/ \E r \in Reqs : AuthClearDelete(r)
    \/ DayPasses

\* concurrent clients, a store that does not fail
Spec == Init /\ [][Next]_vars

InitSeq == InitWith(Sequential)

NextSeq == NextWith(Sequential)

\* a sequential client: a request arrives when the one before has responded;
\* one operation of the bindings may throw
SpecSeq == InitSeq /\ [][NextSeq]_vars

InitReturning == InitWith(Returning)

NextReturning == NextWith(Returning)

\* a sequential client that comes back more often, a store that does not fail
SpecReturning == InitReturning /\ [][NextReturning]_vars

InitReport == InitWith(Reporting)

NextReport == NextWith(Reporting) \/ ReportNext(Reporting)

\* a sequential client that uses the reporting routes too; one operation of
\* the bindings or of the analytics engine may fail
SpecReport == InitReport /\ [][NextReport]_vars

\* a request for the analytics of a link, at the point where the engine has
\* answered with some list of rows
InitFold ==
    \E rows \in RowLists, linkId \in LinkIds :
        /\ kv = [k \in {SessionKey(ValidSession)} |-> "gho_token"]
        /\ kvExpiry = [k \in {SessionKey(ValidSession)} |-> SessionTtl]
        /\ now = 0
        /\ req = [r \in Reqs |->
                    IF r = 1
                    THEN [Idle EXCEPT !.kind = "analytics",
                                      !.pc = "analyticsFold",
                                      !.cookie = ValidSession,
                                      !.linkId = linkId, !.rows = rows]
                    ELSE Idle]
        /\ log = [r \in Reqs |-> {}]
        /\ sink = EmptyBag
        /\ faults = MaxFaults
        /\ arrived = 1
        /\ hist = [firstId |-> <<>>, expired |-> [c \in Codes |-> "never"],
                   submitted |-> <<>>, sessions |-> {ValidSession},
               registered |-> {}]

NextFold == \E r \in Reqs : AnalyticsFold(r)

\* the fold of the rows of the analytics engine, over every list of rows
SpecFold == InitFold /\ [][NextFold]_vars

\* a call of generateShortCode, at the point where crypto.getRandomValues has
\* filled randomValues
InitCode ==
    \E randomValues \in [1..CodeLength -> Bytes] :
        /\ kv = [k \in {SessionKey(ValidSession)} |-> "gho_token"]
        /\ kvExpiry = [k \in {SessionKey(ValidSession)} |-> SessionTtl]
        /\ now = 0
        /\ req = [r \in Reqs |->
                    IF r = 1
                    THEN [Idle EXCEPT !.kind = "generate", !.pc = "generate",
                                      !.randomValues = randomValues]
                    ELSE Idle]
        /\ log = [r \in Reqs |-> {}]
        /\ sink = EmptyBag
        /\ faults = 0
        /\ arrived = 1
        /\ hist = [firstId |-> <<>>, expired |-> [c \in Codes |-> "never"],
                   submitted |-> <<>>, sessions |-> {ValidSession},
               registered |-> {}]

NextCode == \E r \in Reqs : GenerateShortCode(r)

\* generateShortCode, over every value of the random bytes
SpecCode == InitCode /\ [][NextCode]_vars

InitSurvey == InitWith(Surveying)

NextSurvey == NextWith(Surveying) \/ OverviewNext(Surveying)

\* a sequential client that creates links, follows them and asks for the
\* overview; one operation of the bindings or of the analytics engine may fail
SpecSurvey == InitSurvey /\ [][NextSurvey]_vars

InitAuth == InitWith(Visiting)

NextAuth ==
    NextWith(Visiting) \/ ReportNext(Visiting) \/ AuthNext(Visiting)

\* a sequential client that uses every route, logs in and out, and stays
\* for longer than a session lives
SpecAuth == InitAuth /\ [][NextAuth]_vars

\* ================================================================ claims
InCreation(r) ==
    /\ req[r].kind = "shorten"
    /\ req[r].pc \in {"checkCode", "getUrlId", "putUrlId", "putLink"}

Created(r) ==
    req[r].kind = "shorten" /\ req[r].pc = "done" /\ req[r].status = 201

\* C1: a creation that finds a record under its short code answers 400 and
\* leaves the store as it is, and the record stays as it was until the
\* response; a creation that follows a 201 for the same code never gets past
\* the existence check, and answers 400 when none of its operations threw.
C1_ConflictKeepsRecord ==
    [][\A r \in Reqs :
        LET key == LinkKey(req[r].shortCode)
        IN  /\ ( /\ req[r].kind = "shorten" /\ req[r].pc = "checkCode"
                 /\ req'[r].pc # "checkCode"
                 /\ KvHas(key) /\ faults' = faults )
               => ( /\ req'[r].status = 400
                    /\ req'[r].pc = "releaseLock"
                    /\ kv' = kv )
            /\ ( /\ req[r].kind = "shorten" /\ req[r].status = 400
                 /\ req[r].pc # "done" )
               => ( /\ key \in DOMAIN kv'
                    /\ kv'[key] = kv[key]
                    /\ req'[r].status = 400 )
            /\ (req'[r].kind = "shorten" /\ req'[r].repeat)
               => ( /\ req'[r].pc \notin {"getUrlId", "putUrlId", "putLink"}
                    /\ req'[r].status # 201
                    /\ (req'[r].pc = "done" /\ \A e \in log'[r] : e[3])
                       => req'[r].status = 400 )
    ]_vars

\* two creations in a row with the same code: the second has answered 400,
\* and the record of the first is in the store
C1_Witness ==
    \E r \in Reqs :
        /\ req[r].kind = "shorten" /\ req[r].pc = "done" /\ req[r].repeat
        /\ req[r].status = 400
        /\ KvHas(LinkKey(req[r].shortCode))

\* C2: two overlapping creations for the same destination that both answered
\* 201 under different codes stored link records with the same urlId.
C2_SameIdentity ==
    \A r1, r2 \in Reqs :
        ( /\ r1 # r2 /\ Created(r1) /\ Created(r2)
          /\ req[r1].originalUrl = req[r2].originalUrl
          /\ req[r1].shortCode # req[r2].shortCode
          /\ KvHas(LinkKey(req[r1].shortCode))
          /\ KvHas(LinkKey(req[r2].shortCode)) )
        => kv[LinkKey(req[r1].shortCode)].urlId
           = kv[LinkKey(req[r2].shortCode)].urlId

\* C3: of the overlapping creations that use the same short code, at most
\* one answers 201.
C3_OneCreationPerCode ==
    \A r1, r2 \in Reqs :
        ( /\ r1 # r2 /\ Created(r1)
          /\ req[r2].kind = "shorten" /\ req[r2].pc = "done"
          /\ req[r1].shortCode = req[r2].shortCode )
        => req[r2].status # 201

\* C4: while no lock can have outlived its time to live, no two creations
\* for the same destination are both between acquireLock and releaseLock.
C4_MutualExclusion ==
    now < LockTtl =>
        \A r1, r2 \in Reqs :
            ( /\ r1 # r2 /\ InCreation(r1) /\ InCreation(r2) )
            => req[r1].originalUrl # req[r2].originalUrl

\* C5: the delete of releaseLock removes lock:{url} only when the token
\* stored at that moment is the caller's.
C5_ReleaseOwnLockOnly ==
    [][\A r \in Reqs :
        LET key == LockKey(req[r].originalUrl)
        IN  ( /\ req[r].kind = "shorten" /\ req[r].pc = "releaseDelete"
              /\ req'[r].pc = "done"
              /\ key \in DOMAIN kv /\ key \notin DOMAIN kv' )
            => kv[key] = req[r].lockId
    ]_vars

\* C6: a stored urlId:{url} value is never changed or removed, except by the
\* delete of /api/clear/urlId.
C6_IdentityImmutable ==
    [][\A url \in Urls :
        LET key == UrlIdKey(url)
        IN  KvHas(key) =>
              \/ (key \in DOMAIN kv' /\ kv'[key] = kv[key])
              \/ \E r \in Reqs : /\ req[r].kind = "clear"
                                 /\ req[r].prefix = "urlId"
                                 /\ req[r].pc = "clearDelete"
                                 /\ req'[r] # req[r]
    ]_vars

\* C7: with one request at a time, every creation that answered 201 stored a
\* link record whose urlId is the one first stored for its destination since
\* the identities were last cleared, and that is still the stored identity.
C7_IdentityReused ==
    \A r \in Reqs :
        (req[r].kind = "shorten" /\ req[r].status = 201) =>
            LET key == LinkKey(req[r].shortCode)
                url == req[r].originalUrl
            IN  /\ KvHas(key)
                /\ url \in DOMAIN hist.firstId
                /\ kv[key].urlId = hist.firstId[url]
                /\ KvHas(UrlIdKey(url))
                /\ kv[UrlIdKey(url)] = hist.firstId[url]

\* a creation answered 201 without storing an identity: it used the stored one
C7_Witness ==
    \E r \in Reqs :
        /\ Created(r)
        /\ \A e \in log[r] : ~(e[1] = "put" /\ e[2][1] = "urlId")
        /\ kv[LinkKey(req[r].shortCode)].urlId
           = hist.firstId[req[r].originalUrl]

\* C8: a creation answers 429 exactly when its put of lock:{url} threw, and
\* then it has issued no operation on a link: or urlId: key; a creation past
\* acquireLock holds a token and its put went through.
C8_BusyOnlyWhenPutThrows ==
    \A r \in Reqs :
        req[r].kind = "shorten" =>
            LET lockPuts == {e \in log[r] : e[1] = "put" /\ e[2][1] = "lock"}
            IN  /\ req[r].status = 429 <=> \E e \in lockPuts : ~e[3]
                /\ req[r].status = 429 =>
                      /\ req[r].pc = "done"
                      /\ \A e \in log[r] : e[2][1] \notin {"link", "urlId"}
                /\ req[r].pc \in {"checkCode", "getUrlId", "putUrlId",
                                  "putLink", "releaseLock", "releaseDelete"}
                   => req[r].lockId # 0 /\ lockPuts # {}

C8_Witness ==
    \E r \in Reqs :
        /\ req[r].kind = "shorten" /\ req[r].pc = "done"
        /\ req[r].status = 429
        /\ <<"put", LockKey(req[r].originalUrl), FALSE>> \in log[r]

\* C9: a GET /{shortCode} whose operations go through answers NotFound when
\* no record is stored; deletes the record and answers NotFound when the
\* record's expiration has passed; and answers a redirect to the stored
\* originalUrl, the store unchanged, otherwise.
C9_RedirectCases ==
    [][\A r \in Reqs :
        LET key == LinkKey(req'[r].shortCode)
            passed == /\ "expiration" \in DOMAIN kv[key]
                      /\ DateNow > kv[key].expiration
            arrives == /\ arrived' = arrived + 1
                       /\ req'[r].kind = "redirect"
                       /\ req[r].pc \in {"idle", "done"}
        IN  /\ (arrives /\ faults' = faults) =>
                /\ ~KvHas(key)
                   => (req'[r].pc = "done" /\ req'[r].status = 404 /\ kv' = kv)
                /\ (KvHas(key) /\ passed)
                   => req'[r].pc = "deleteExpired"
                /\ (KvHas(key) /\ ~passed)
                   => ( /\ req'[r].pc = "done" /\ req'[r].status = 302
                        /\ req'[r].location = kv[key].originalUrl
                        /\ kv' = kv )
            /\ ( /\ req[r].kind = "redirect" /\ req[r].pc = "deleteExpired"
                 /\ req'[r].pc = "done" /\ faults' = faults )
               => ( /\ req'[r].status = 404
                    /\ LinkKey(req[r].shortCode) \notin DOMAIN kv' )
    ]_vars

\* C10 as stated: once a GET has answered NotFound for an expired record of a
\* code, no later GET of that code answers a redirect.
C10_StaysNotFound ==
    \A r \in Reqs :
        ( /\ req[r].kind = "redirect" /\ req[r].pc = "done"
          /\ hist.expired[req[r].shortCode] # "never" )
        => req[r].status # 302

\* C10, amended: once a GET has answered NotFound for an expired record of a
\* code, no record is stored under the code and no GET of it answers a
\* redirect, until a creation stores a record under that code again.
C10_NotFoundUntilRewritten ==
    /\ \A c \in Codes : hist.expired[c] = "gone" => ~KvHas(LinkKey(c))
    /\ \A r \in Reqs :
        ( /\ req[r].kind = "redirect" /\ req[r].pc = "done"
          /\ hist.expired[req[r].shortCode] = "gone" )
        => req[r].status = 404

\* a GET answers NotFound for a code whose expired record an earlier GET
\* has deleted
C10_Witness ==
    \E r \in Reqs :
        /\ req[r].kind = "redirect" /\ req[r].pc = "done"
        /\ req[r].status = 404 /\ req[r].reason = "absent"
        /\ hist.expired[req[r].shortCode] = "gone"

\* the step in which request r arrives as a GET /:shortCode
RedirectArrives(r) ==
    /\ arrived' = arrived + 1
    /\ req'[r].kind = "redirect"
    /\ req[r].pc \in {"idle", "done"}

\* C11: a creation whose expiration is already in the past still stores its
\* record and answers 201, and the next GET of the code goes on to delete the
\* record and answers NotFound.
C11_PastExpirationNextGet ==
    [][\A r \in Reqs :
        /\ ( /\ req[r].kind = "shorten" /\ req[r].pc = "putLink"
             /\ req'[r].pc # "putLink" /\ faults' = faults )
           => ( /\ req'[r].status = 201
                /\ LinkKey(req[r].shortCode) \in DOMAIN kv' )
        /\ \A q \in Reqs :
            ( /\ Created(q) /\ req[q].pastExpiration
              /\ RedirectArrives(r) /\ faults' = faults
              /\ req'[r].shortCode = req[q].shortCode )
            => req'[r].pc = "deleteExpired"
        /\ ( /\ req[r].kind = "redirect" /\ req[r].pc = "deleteExpired"
             /\ req'[r].pc = "done" /\ faults' = faults )
           => ( /\ req'[r].status = 404 /\ req'[r].reason = "expired"
                /\ LinkKey(req[r].shortCode) \notin DOMAIN kv' )
    ]_vars

\* C13: a stored link record that carries an expiration has a time to live
\* in the store that ends when the expiration is reached, so that no such
\* record is in the store once its expiration has passed.
C13_LinkTimeToLive ==
    \A c \in Codes :
        (KvHas(LinkKey(c)) /\ "expiration" \in DOMAIN kv[LinkKey(c)]) =>
            /\ LinkKey(c) \in DOMAIN kvExpiry
            /\ kvExpiry[LinkKey(c)] * 1000 <= kv[LinkKey(c)].expiration + 999
            /\ DateNow <= kv[LinkKey(c)].expiration + 999

\* C14: a creation without expiration stores a record without expiration
\* field; a record without expiration field has no time to live, and a GET
\* of its code whose operations go through answers the redirect and leaves
\* the store as it is, at any time.
C14_NoExpirationNeverExpires ==
    [][\A r \in Reqs :
        LET key == LinkKey(req'[r].shortCode)
        IN  /\ ( /\ req[r].kind = "shorten" /\ req[r].pc = "putLink"
                 /\ req'[r].status = 201
                 /\ req[r].expiration = NoExpiration )
               => ( /\ "expiration" \notin DOMAIN kv'[key]
                    /\ key \notin DOMAIN kvExpiry' )
            /\ \A c \in Codes :
                (LinkKey(c) \in DOMAIN kv'
                 /\ "expiration" \notin DOMAIN kv'[LinkKey(c)])
                => LinkKey(c) \notin DOMAIN kvExpiry'
            /\ ( /\ RedirectArrives(r) /\ faults' = faults
                 /\ KvHas(key) /\ "expiration" \notin DOMAIN kv[key] )
               => ( /\ req'[r].pc = "done" /\ req'[r].status = 302
                    /\ req'[r].location = kv[key].originalUrl
                    /\ kv' = kv )
    ]_vars

\* a GET, after the clock has advanced, has answered the redirect for a
\* record without expiration field, which is still stored
C14_Witness ==
    \E r \in Reqs :
        /\ req[r].kind = "redirect" /\ req[r].pc = "done"
        /\ req[r].status = 302 /\ now > 0
        /\ KvHas(LinkKey(req[r].shortCode))
        /\ "expiration" \notin DOMAIN kv[LinkKey(req[r].shortCode)]

\* C17: a GET that answers the redirect has written exactly one data point,
\* tagged with the record's urlId and the requested short code; a GET that
\* answers NotFound, for an absent or an expired record, has written none.
C17_OneClickPerRedirect ==
    [][\A r \in Reqs :
        LET key == LinkKey(req'[r].shortCode)
        IN  /\ RedirectArrives(r) =>
                /\ req'[r].status = 302 =>
                     sink' = sink (+) SetToBag({<<kv[key].urlId,
                                                  req'[r].shortCode>>})
                /\ (req'[r].status = 404 \/ req'[r].pc = "deleteExpired")
                   => sink' = sink
            /\ (req[r].kind = "redirect" /\ req[r].pc = "deleteExpired")
               => sink' = sink
    ]_vars

\* a GET has answered the redirect and its data point is in the dataset
C17_Witness ==
    \E r \in Reqs :
        /\ req[r].kind = "redirect" /\ req[r].pc = "done"
        /\ req[r].status = 302
        /\ \E e \in BagToSet(sink) : e[2] = req[r].shortCode

\* C18: a GET of a live record whose read went through answers the redirect
\* to originalUrl, whether writeDataPoint threw or not.
C18_RedirectDespiteSinkFailure ==
    [][\A r \in Reqs :
        LET key == LinkKey(req'[r].shortCode)
        IN  ( /\ RedirectArrives(r)
              /\ <<"get", key, TRUE>> \in log'[r]
              /\ KvHas(key) /\ ~IsExpired(kv[key]) )
            => ( /\ req'[r].status = 302
                 /\ req'[r].location = kv[key].originalUrl )
    ]_vars

\* C12: with one request at a time, the listing of a GET /api/dashboard/all
\* that answered 200 holds, for every short code whose creation answered 201
\* and whose record was not deleted since, exactly one entry, with the
\* originalUrl and the description that were submitted, and with the
\* expiration that was submitted, or none when none was submitted.
C12_DashboardRoundTrip ==
    \A r \in Reqs :
        (req[r].kind = "dashboard" /\ req[r].pc = "done" /\ req[r].status = 200)
        => LET data == req[r].body.data
           IN  /\ \A c \in DOMAIN hist.submitted :
                    \E i \in 1..Len(data) :
                        /\ data[i].shortCode = c
                        /\ data[i].originalUrl = hist.submitted[c].originalUrl
                        /\ "description" \in DOMAIN data[i]
                        /\ data[i].description = hist.submitted[c].description
                        /\ IF hist.submitted[c].expiration = NoExpiration
                           THEN "expiration" \notin DOMAIN data[i]
                           ELSE /\ "expiration" \in DOMAIN data[i]
                                /\ data[i].expiration
                                   = hist.submitted[c].expiration
               /\ \A i, j \in 1..Len(data) :
                    data[i].shortCode = data[j].shortCode => i = j

\* a listing holds an entry with an expiration for a code that was created
C12_Witness ==
    \E r \in Reqs :
        /\ req[r].kind = "dashboard" /\ req[r].pc = "done"
        /\ req[r].status = 200
        /\ \E i \in 1..Len(req[r].body.data) :
            /\ "expiration" \in DOMAIN req[r].body.data[i]
            /\ req[r].body.data[i].shortCode \in DOMAIN hist.submitted

\* C19: when both dates are supplied and the start is not before the end,
\* GET /api/analytics/url/:urlId answers 400 "Start date must be before end
\* date." and has issued no query; when a date is missing, or the start is
\* before the end, the handler goes on to the query.
C19_DateValidation ==
    [][\A r \in Reqs :
        LET start == ParseInt(req[r].startDate)
            end == ParseInt(req[r].endDate)
            supplied == req[r].startDate # "" /\ req[r].endDate # ""
            numbers == ~start.nan /\ ~end.nan
        IN  /\ ( /\ req[r].kind = "analytics"
                 /\ req[r].pc = "analyticsValidate"
                 /\ req'[r].pc # "analyticsValidate" )
               => /\ (supplied /\ numbers /\ start.value >= end.value)
                     => ( /\ req'[r].pc = "done" /\ req'[r].status = 400
                          /\ req'[r].reason
                             = "Start date must be before end date." )
                  /\ (~supplied \/ (numbers /\ start.value < end.value))
                     => req'[r].pc = "analyticsQuery"
            /\ (req'[r].kind = "analytics" /\ req'[r].status = 400)
               => \A e \in log'[r] : e[1] # "query"
    ]_vars

\* dates that are not in order were supplied, and the request has answered
\* 400 without a query
C19_Witness ==
    \E r \in Reqs :
        /\ req[r].kind = "analytics" /\ req[r].pc = "done"
        /\ req[r].status = 400
        /\ \A e \in log[r] : e[1] # "query"

\* C20: a GET /api/analytics/overview that listed no link: key has answered
\* 200 with {success: true, data: {totalClicks: 0, totalLinks: 0,
\* avgClicksPerLink: 0}} and has issued no query.
C20_EmptyOverview ==
    \A r \in Reqs :
        ( /\ req[r].kind = "overview" /\ req[r].pc = "done"
          /\ <<"list", <<"link", "">>, TRUE>> \in log[r]
          /\ KvList("link") = {} )
        => ( /\ req[r].status = 200
             /\ \A e \in log[r] : e[1] # "query"
             /\ req[r].body.success
             /\ "data" \in DOMAIN req[r].body
             /\ req[r].body.data = [totalClicks |-> 0, totalLinks |-> 0,
                                    avgClicksPerLink |-> 0] )

\* the routes under /api/* that stand behind the middleware
ApiKinds == {"shorten", "clear", "dashboard", "analytics", "overview"}

\* the step in which request r arrives at a route under /api/*
ApiArrives(r) ==
    /\ arrived' = arrived + 1
    /\ req'[r].kind \in ApiKinds
    /\ req[r].pc \in {"idle", "done"}

\* C15: a request to a route under /api/* without session cookie answers 401
\* and has issued no operation; one whose session:{sessionId} record is not
\* in the store when it arrives, never stored or expired, answers 403 and has
\* only read that key; the handler runs only for a request whose record is
\* in the store; a 401 or a 403 has touched no link:, urlId: or lock: key.
C15_ProtectedRoutes ==
    [][\A r \in Reqs :
        LET cookie == req'[r].cookie
            key == SessionKey(cookie)
        IN  /\ ApiArrives(r) =>
                /\ cookie = ""
                   => ( /\ req'[r].pc = "done" /\ req'[r].status = 401
                        /\ log'[r] = {} )
                /\ (cookie # "" /\ ~KvHas(key) /\ faults' = faults)
                   => ( /\ req'[r].pc = "done" /\ req'[r].status = 403
                        /\ log'[r] = {<<"get", key, TRUE>>} )
                /\ req'[r].pc # "done"
                   => (cookie # "" /\ KvHas(key) /\ req'[r].status = 0)
            /\ (req'[r].kind \in ApiKinds /\ req'[r].status \in {401, 403})
               => \A e \in log'[r] : e[2][1] \notin {"link", "urlId", "lock"}
    ]_vars

\* a request presenting the session whose record has expired has answered 403
C15_Witness ==
    \E r \in Reqs :
        /\ req[r].kind \in ApiKinds /\ req[r].pc = "done"
        /\ req[r].status = 403 /\ req[r].cookie = ValidSession
        /\ now >= SessionTtl

\* C16: after a logout that went through, the session record of its cookie
\* is absent; after an /auth/clear that went through, no session record is
\* there; a session record is stored with the 24 hours as its time to live
\* and is absent once they have elapsed; a session id whose record is absent
\* never has a record again; and a request to a route under /api/* that
\* presents such an id is rejected.
C16_SessionDestroyed ==
    [][/\ \A r \in Reqs :
            /\ ( /\ arrived' = arrived + 1 /\ req'[r].kind = "logout"
                 /\ req'[r].cookie # "" /\ req'[r].status = 200 )
               => SessionKey(req'[r].cookie) \notin DOMAIN kv'
            /\ ( /\ req'[r].kind = "authClear" /\ req'[r].pc = "done"
                 /\ req'[r].status = 200 /\ req'[r] # req[r] )
               => \A s \in SessionIds : SessionKey(s) \notin DOMAIN kv'
            /\ ( /\ ApiArrives(r) /\ req'[r].cookie \in hist.sessions
                 /\ ~KvHas(SessionKey(req'[r].cookie)) )
               => (req'[r].pc = "done" /\ req'[r].status \in {403, 500})
       /\ \A s \in SessionIds :
            /\ SessionKey(s) \in DOMAIN kv'
               => ( /\ SessionKey(s) \in DOMAIN kvExpiry'
                    /\ now' < kvExpiry'[SessionKey(s)] )
            /\ (~KvHas(SessionKey(s)) /\ SessionKey(s) \in DOMAIN kv')
               => kvExpiry'[SessionKey(s)] = now + SessionTtl
            /\ (s \in hist.sessions /\ ~KvHas(SessionKey(s)))
               => SessionKey(s) \notin DOMAIN kv'
    ]_vars

\* before the session lifetime has passed, a request presenting a session id
\* that was generated and whose record was deleted has answered 403
C16_Witness ==
    \E r \in Reqs :
        /\ req[r].kind \in ApiKinds /\ req[r].pc = "done"
        /\ req[r].status = 403 /\ req[r].cookie \in hist.sessions
        /\ now < SessionTtl

C22_ReleaseBeforeResponse ==
    [][\A r \in Reqs :
         (/\ req[r].kind = "shorten" /\ req[r].pc # "done"
          /\ req[r].lockId # 0 /\ req'[r].pc = "done") =>
            /\ req[r].pc \in {"releaseLock", "releaseDelete"}
            /\ req[r].status \in {201, 400, 500}
            /\ req'[r].status = req[r].status
            /\ req'[r].reason = req[r].reason
            /\ req'[r].body = req[r].body
            /\ \E ok \in BOOLEAN :
                  <<"get", <<"lock", req[r].originalUrl>>, ok>> \in log'[r]]_vars

\* a creation has answered 201 although the read in releaseLock threw
C22_Witness ==
    \E r \in Reqs :
        /\ req[r].kind = "shorten" /\ req[r].pc = "done"
        /\ req[r].status = 201
        /\ <<"get", <<"lock", req[r].originalUrl>>, FALSE>> \in log[r]

\* C23: a GET /api/dashboard/all that answers 200 returns exactly one entry
\* for every link record that is stored and not past its expiration, and the
\* record it reads in its last step is not returned when it is past its
\* expiration at that moment.
C23_LiveRecordsListed ==
    [][\A r \in Reqs :
         (/\ req[r].kind = "dashboard" /\ req[r].pc = "dashboardGet"
          /\ req'[r].pc = "done" /\ req'[r].status = 200) =>
            LET data == req'[r].body.data
                key == Head(req[r].keys)
                past(k) == /\ "expiration" \in DOMAIN kv[k]
                           /\ DateNow > kv[k].expiration
            IN  /\ \A k \in KvList("link") :
                     ~past(k) =>
                        Cardinality({i \in 1..Len(data) :
                                       data[i].shortCode = k[2]}) = 1
                /\ (KvHas(key) /\ past(key)) =>
                     \A i \in 1..Len(data) : data[i].shortCode # key[2]]_vars

\* C24: the keys an overview counts are the link records that are not past
\* their expiration when they are listed; the overview answers with
\* totalLinks equal to their number and with avgClicksPerLink (in tenths)
\* equal to totalClicks divided by totalLinks when totalLinks > 0, and 0
\* otherwise.
C24_OverviewFigures ==
    [][\A r \in Reqs :
         LET live == {k \in KvList("link") :
                        ~("expiration" \in DOMAIN kv[k]
                          /\ DateNow > kv[k].expiration)}
         IN  /\ (/\ req[r].kind = "overview" /\ req[r].pc = "overviewList"
                 /\ req'[r].pc = "overviewFetch")
                  => Len(req'[r].keys) = Cardinality(live)
             /\ (/\ req[r].kind = "overview" /\ req[r].pc = "overviewFetch"
                 /\ req'[r].pc = "done" /\ req'[r].status = 200)
                  => LET data == req'[r].body.data
                     IN  /\ data.totalLinks = Len(req[r].keys)
                         /\ IF data.totalLinks > 0
                            THEN data.avgClicksPerLink * data.totalLinks
                                 = data.totalClicks * 10
                            ELSE data.avgClicksPerLink = 0]_vars

C27_SinkFailure ==
    [][\A r \in Reqs :
         (req'[r] # req[r] /\ req'[r].kind = "analytics") =>
            /\ kv' = kv /\ kvExpiry' = kvExpiry
            /\ (\E e \in log'[r] \ log[r] :
                    e[1] \in {"query", "json"} /\ ~e[3])
                 => /\ req'[r].pc = "done"
                    /\ req'[r].status = 500
                    /\ req'[r].body = [success |-> FALSE]
                    /\ req'[r].reason \in
                         {"Error querying analytics data.",
                          "An unexpected error occurred while processing the analytics request."}]_vars

\* with a link stored, a perLink request has answered 500 because the
\* payload of the engine could not be read
C27_Witness ==
    \E r \in Reqs :
        /\ req[r].kind = "analytics" /\ req[r].pc = "done"
        /\ req[r].status = 500
        /\ <<"json", <<"sink", "url">>, FALSE>> \in log[r]
        /\ KvList("link") # {}

\* C28: generateShortCode picks each character uniformly: for every character
\* it has generated, the number of byte values that randomValues[i] %
\* characters.length maps to that character is the number of byte values it
\* maps to any other character of the alphabet.
C28_UniformCharacters ==
    \A r \in Reqs :
        (req[r].kind = "generate" /\ req[r].pc = "done") =>
            \A i \in 1..Len(req[r].randomValues), j \in 1..Len(Characters) :
                Cardinality({b \in Bytes :
                               CharAt(b) = CharAt(req[r].randomValues[i])})
                = Cardinality({b \in Bytes : CharAt(b) = Characters[j]})

\* C29: no step of a POST /api/shorten for (url, code) changes a key of the
\* store other than lock:{url}, urlId:{url} and link:{code}, and every put
\* and delete it issues is on one of these three; when it ends in 400 or
\* 429, none of its puts and deletes on urlId:{url} or link:{code} has gone
\* through.
C29_ShortenFrame ==
    [][\A r \in Reqs :
         (req'[r] # req[r] /\ req'[r].kind = "shorten") =>
            LET url == req'[r].originalUrl
                own == {<<"lock", url>>, <<"urlId", url>>,
                        <<"link", req'[r].shortCode>>}
                writes == {e \in log'[r] : e[1] \in {"put", "delete"}}
            IN  /\ \A k \in (DOMAIN kv \cup DOMAIN kv') \ own :
                     /\ k \in DOMAIN kv /\ k \in DOMAIN kv'
                     /\ kv'[k] = kv[k]
                /\ \A e \in writes : e[2] \in own
                /\ (req'[r].pc = "done" /\ req'[r].status \in {400, 429})
                     => \A e \in writes : e[3] => e[2] = <<"lock", url>>]_vars

\* a creation for another destination has answered 400 under a short code
\* that was taken: no urlId:{url} was stored for it, and the record under
\* the code is the one that was there
C29_Witness ==
    \E r \in Reqs :
        /\ req[r].kind = "shorten" /\ req[r].pc = "done" /\ req[r].status = 400
        /\ ~KvHas(UrlIdKey(req[r].originalUrl))
        /\ KvHas(LinkKey(req[r].shortCode))
        /\ kv[LinkKey(req[r].shortCode)].originalUrl # req[r].originalUrl

\* C30: a POST /api/shorten that has answered 500 has left the urlId: and
\* link: namespaces as they were: none of its puts on urlId:{url} or
\* link:{code} has gone through.
C30_FailureLeavesNoRecord ==
    \A r \in Reqs :
        (req[r].kind = "shorten" /\ req[r].pc = "done" /\ req[r].status = 500)
        => \A e \in log[r] :
              (e[1] = "put" /\ e[2][1] \in {"urlId", "link"}) => ~e[3]

\* C31: with a store that does not fail, whenever no POST /api/shorten for a
\* destination is in flight, no lock:{url} record is stored for it, in every
\* interleaving of the requests' steps, those in which no time passes
\* included.
C31_NoLockRemains ==
    \A url \in Urls :
        (\A r \in Reqs : ~(/\ req[r].kind = "shorten"
                            /\ req[r].pc \notin {"idle", "done"}
                            /\ req[r].originalUrl = url))
        => ~KvHas(LockKey(url))

\* two creations for one destination have overlapped and responded, one of
\* them without deleting the lock; no time has passed and no lock is left
C31_Witness ==
    /\ now = 0
    /\ \A r \in Reqs : req[r].kind = "shorten" /\ req[r].pc = "done"
    /\ \E url \in Urls :
        /\ \A r \in Reqs : req[r].originalUrl = url
        /\ ~KvHas(LockKey(url))
        /\ \E r \in Reqs : <<"delete", LockKey(url), TRUE>> \notin log[r]

\* C32: the urlId of every stored link:{code} record is a value that was
\* stored as urlId:{originalUrl of the record} at that time or before.
C32_IdentityWasRegistered ==
    \A k \in KvList("link") :
        <<kv[k].originalUrl, kv[k].urlId>> \in hist.registered

\* two link records of one destination carry different identities, both of
\* which were stored for it, and one of which is no longer the stored one
C32_Witness ==
    \E k, l \in KvList("link") :
        /\ kv[k].originalUrl = kv[l].originalUrl
        /\ kv[k].urlId # kv[l].urlId
        /\ KvHas(UrlIdKey(kv[k].originalUrl))
        /\ kv[UrlIdKey(kv[k].originalUrl)] # kv[k].urlId

====
